---- MODULE Spec2Model ----
(***************************************************************************)
(* Baseline training orchestrator (experiments/02_baseline_training.py).   *)
(*                                                                         *)
(* The script is sequential: main() calls train_nsl_kdd_baseline() and     *)
(* then train_cic_baseline().  The collaborators (src.preprocessing,       *)
(* src.models, sklearn's train_test_split) are opaque: every call to one   *)
(* of them either returns a value drawn from a small set or raises an      *)
(* exception of class Exception; resolving the collaborator modules either *)
(* succeeds or raises ImportError.  print() is taken not to fail, and      *)
(* BaseException (KeyboardInterrupt, SystemExit) is outside the model.     *)
(*                                                                         *)
(* pc is the line of the script that runs next; trace is the record of     *)
(* everything the script asked of its collaborators, in order.             *)
(***************************************************************************)
EXTENDS Integers, Sequences, FiniteSets, TLC

VARIABLES
    pc,           \* the statement that runs next ("nsl_36" = line 36 of the NSL procedure)
    frame,        \* the local variables of the procedure that is running
    trace,        \* the calls made so far, each with its arguments and its outcome
    success_nsl,  \* main's local success_nsl: "unset", "True" or "False"
    success_cic,  \* main's local success_cic
    main_ret,     \* what main() returned: "unset", "True" or "False"
    escaped,      \* an exception left a procedure (and so main, which has no handler)
    exit_code,    \* the process exit status, NoExit while the process runs
    rows,         \* row-level view of the CIC split: the rows of X_full
    parts,        \* row-level view of the CIC split: the rows of each split so far
    split_pc      \* position in the row-level split

vars == <<pc, frame, trace, success_nsl, success_cic, main_ret, escaped, exit_code,
          rows, parts, split_pc>>

main_vars == <<pc, frame, trace, success_nsl, success_cic, main_ret, escaped, exit_code>>
split_vars == <<rows, parts, split_pc>>

----------------------------------------------------------------------------
(* Bounds of the model *)

\* rows on each side of a size threshold that the loaders may deliver
RowSlack == 1
\* largest data set of the row-level split
MaxRows == 6

(* Constants of the program *)

NslExcludeThreshold == 5000
CicExcludeThreshold == 10000
RandomState == 42

NoExit == -1

----------------------------------------------------------------------------
(* Values *)

None == "None"

\* names a leaderboard row may carry
ModelNames == {"random_forest", "knn"}

\* a feature/label split: which variable of the procedure holds it, and its row count
Split(name, n) == [split |-> name, rows |-> n]
NoSplit == Split("unset", 0)

\* the rankings of the models in S: every order of every subset, one row per model
RECURSIVE Rankings(_)
Rankings(S) ==
    {<<>>} \cup UNION {{<<x>> \o r : r \in Rankings(S \ {x})} : x \in S}

\* what evaluate_all may return: the rows' model_name column, best first, and whether
\* the frame carries the columns the script selects at lines 61/136.  A frame that
\* lacks them has rows but no model_name to read.
Leaderboards ==
    {[names |-> s, columns |-> TRUE] : s \in Rankings(ModelNames)}
        \cup {[names |-> <<"no model_name">>, columns |-> FALSE]}
NoLeaderboard == [names |-> <<>>, columns |-> FALSE]

\* DataFrame.empty
Empty(lb) == lb.names = <<>>

\* what evaluate_model may return: a metric mapping whose values format as floats,
\* or something the loop at lines 66-68 / 141-143 cannot format
MetricRecords == {"metrics", "unformattable"}

EmptyFrame ==
    [train_data |-> "unset", test_data |-> "unset", cic_data |-> "unset",
     X_full |-> NoSplit, X_train |-> NoSplit, X_temp |-> NoSplit,
     X_val |-> NoSplit, X_test |-> NoSplit,
     exclude_models |-> <<>>, val_results |-> NoLeaderboard,
     best_model_name |-> "unset", test_metrics |-> "unset"]

\* outcomes of a collaborator call
Ok(v) == [status |-> "ok", value |-> v]
Raised == [status |-> "raise", value |-> "Exception"]
ImportFailed == [status |-> "raise", value |-> "ImportError"]

\* one entry of trace
Event(p, op, args, res) == [proc |-> p, op |-> op, args |-> args, res |-> res]

\* paths below PROJECT_ROOT, one component per element
Path(dir, file) == Append(dir, file)

----------------------------------------------------------------------------
(* Pure parts of the script *)

\* line 40 as if only the train data were tested
NslDataMissing_TrainOnly(train_data, test_data) == train_data = None

\* line 40: train_data is None or test_data is None
NslDataMissing(train_data, test_data) == train_data = None \/ test_data = None

\* line 101: cic_data is None
CicDataMissing(cic_data) == cic_data = None

\* line 51 as if the comparison were >=
NslExcludeModels_AtLeast(n) ==
    IF n >= NslExcludeThreshold THEN <<"svm_linear">> ELSE <<>>

\* line 51: ["svm_linear"] if len(X_train) > 5_000 else []
NslExcludeModels(n) == IF n > NslExcludeThreshold THEN <<"svm_linear">> ELSE <<>>

\* line 126: ["svm_linear", "knn"] if len(X_train) > 10_000 else []
CicExcludeModels(n) == IF n > CicExcludeThreshold THEN <<"svm_linear", "knn">> ELSE <<>>

\* lines 63 / 138 as if the last row were taken (iloc[-1])
BestModelName_Last(lb) == lb.names[Len(lb.names)]

\* lines 63 / 138: val_results.iloc[0]["model_name"]
BestModelName(lb) == lb.names[1]

\* lines 71-72
NslModelsDir == <<"data", "models", "baseline">>
NslResultsDir == <<"data", "results", "nsl">>
NslSuffix == "_nsl"
\* line 74
NslPreprocessorFile == Path(NslModelsDir, "nsl_preprocessor.pkl")

\* line 146 as if the CIC models went to the NSL-KDD models directory
CicModelsDir_Shared == <<"data", "models", "baseline">>

\* lines 146-148
CicModelsDir == <<"data", "models", "cic_baseline">>
CicResultsDir == <<"data", "results", "cic">>
CicSuffix == "_cic"

\* line 175 as if it were success_nsl or success_cic
MainResult_Or(a, b) == IF a = "True" \/ b = "True" THEN "True" ELSE "False"

\* line 175: success_nsl and success_cic
MainResult(a, b) == IF a = "True" /\ b = "True" THEN "True" ELSE "False"

\* line 179: 0 if main() else 1
ExitCode(r) == IF r = "True" THEN 0 ELSE 1

\* lines 162-163 as if main stopped at the first failure
AfterNsl_ShortCircuit(result) == IF result = "True" THEN "main_163" ELSE "main_165"

\* line 163 follows line 162 whatever train_nsl_kdd_baseline returned
AfterNsl(result) == "main_163"

\* test_size of the two splits, as fractions: 0.4 (line 112) and 0.5 (line 119)
FirstTestSize == <<2, 5>>
SecondTestSize == <<1, 2>>

\* train_test_split on n rows with test fraction t: the <<n_train, n_test>> it may
\* produce.  The test part is t*n rounded to a neighbouring integer, the train part
\* is the rest.
TrainTestSplit(n, t) ==
    LET lo == (n * t[1]) \div t[2]
        hi == (n * t[1] + t[2] - 1) \div t[2]
    IN  {<<n - k, k>> : k \in {lo, hi}}

\* row counts the NSL-KDD preprocessor may deliver as X_train
NslTrainRowChoices ==
    (NslExcludeThreshold - RowSlack) .. (NslExcludeThreshold + RowSlack)

\* row counts of the full CIC data set: those whose 60% part straddles the threshold
CicFullRowChoices ==
    LET mid == (CicExcludeThreshold * 5) \div 3 + 1
    IN  (mid - RowSlack) .. (mid + RowSlack)

----------------------------------------------------------------------------
(* Control flow shared by the two procedures *)

\* the procedure goes on to statement next with locals f, having made the calls evs
Step(evs, next, f) ==
    /\ trace' = trace \o evs
    /\ pc' = next
    /\ frame' = f
    /\ UNCHANGED <<success_nsl, success_cic, main_ret, escaped, exit_code, split_vars>>

\* train_nsl_kdd_baseline returns v to line 162 of main
NslReturn(evs, v) ==
    /\ trace' = trace \o evs \o <<Event("nsl", "return", <<>>, Ok(v))>>
    /\ success_nsl' = v
    /\ pc' = AfterNsl(v)
    /\ frame' = EmptyFrame
    /\ UNCHANGED <<success_cic, main_ret, escaped, exit_code, split_vars>>

\* lines 78-81 as if the handler reported success
NslExcept_ReturnsTrue(evs) == NslReturn(evs, "True")

\* lines 78-81: except Exception -> print, traceback, return False
NslExcept(evs) == NslReturn(evs, "False")

\* train_cic_baseline returns v to line 163 of main
CicReturn(evs, v) ==
    /\ trace' = trace \o evs \o <<Event("cic", "return", <<>>, Ok(v))>>
    /\ success_cic' = v
    /\ pc' = "main_165"
    /\ frame' = EmptyFrame
    /\ UNCHANGED <<success_nsl, main_ret, escaped, exit_code, split_vars>>

\* lines 152-155: except Exception -> print, traceback, return False
CicExcept(evs) == CicReturn(evs, "False")

\* an exception raised outside every try block leaves the procedure, then main
\* (lines 158-175 have no handler), then the module (line 179): the interpreter
\* prints the traceback and the process ends with status 1
Uncaught(evs) ==
    /\ trace' = trace \o evs
    /\ escaped' = TRUE
    /\ pc' = "exit"
    /\ exit_code' = 1
    /\ frame' = EmptyFrame
    /\ UNCHANGED <<success_nsl, success_cic, main_ret, split_vars>>

----------------------------------------------------------------------------
(* train_nsl_kdd_baseline, lines 23-81 *)

\* line 162 calls the procedure; line 26 prints the banner
MainCallNsl ==
    /\ pc = "main_162"
    /\ Step(<<Event("nsl", "enter", <<>>, Ok("enter"))>>, "nsl_29", EmptyFrame)

\* lines 28-33
NslImport ==
    /\ pc = "nsl_29"
    /\ \/ Step(<<Event("nsl", "import", <<>>, Ok("modules"))>>, "nsl_36", frame)
       \/ NslReturn(<<Event("nsl", "import", <<>>, ImportFailed)>>, "False")

\* line 36
NslConstructAnalyzer ==
    /\ pc = "nsl_36"
    /\ \/ Step(<<Event("nsl", "NSLKDDAnalyzer", <<>>, Ok("analyzer"))>>, "nsl_37", frame)
       \/ NslExcept(<<Event("nsl", "NSLKDDAnalyzer", <<>>, Raised)>>)

\* line 37
NslLoadTrain ==
    /\ pc = "nsl_37"
    /\ \/ \E d \in {None, "KDDTrain+"} :
            Step(<<Event("nsl", "load_data", <<"KDDTrain+.txt">>, Ok(d))>>, "nsl_38",
                 [frame EXCEPT !.train_data = d])
       \/ NslExcept(<<Event("nsl", "load_data", <<"KDDTrain+.txt">>, Raised)>>)

\* line 38
NslLoadTest ==
    /\ pc = "nsl_38"
    /\ \/ \E d \in {None, "KDDTest+"} :
            Step(<<Event("nsl", "load_data", <<"KDDTest+.txt">>, Ok(d))>>, "nsl_40",
                 [frame EXCEPT !.test_data = d])
       \/ NslExcept(<<Event("nsl", "load_data", <<"KDDTest+.txt">>, Raised)>>)

\* lines 40-42
NslCheckData ==
    /\ pc = "nsl_40"
    /\ IF NslDataMissing(frame.train_data, frame.test_data)
       THEN NslReturn(<<>>, "False")
       ELSE Step(<<>>, "nsl_45", frame)

\* line 45
NslConstructPreprocessor ==
    /\ pc = "nsl_45"
    /\ LET args == <<"undersample">>
       IN  \/ Step(<<Event("nsl", "NSLKDDPreprocessor", args, Ok("preprocessor"))>>,
                   "nsl_46", frame)
           \/ NslExcept(<<Event("nsl", "NSLKDDPreprocessor", args, Raised)>>)

\* line 46
NslFitTransform ==
    /\ pc = "nsl_46"
    /\ LET args == <<frame.train_data>>
       IN  \/ \E n \in NslTrainRowChoices :
                Step(<<Event("nsl", "fit_transform", args, Ok(n))>>, "nsl_47",
                     [frame EXCEPT !.X_train = Split("train", n),
                                   !.X_val = Split("val", 1)])
           \/ NslExcept(<<Event("nsl", "fit_transform", args, Raised)>>)

\* line 47
NslTransform ==
    /\ pc = "nsl_47"
    /\ LET args == <<frame.test_data>>
       IN  \/ Step(<<Event("nsl", "transform", args, Ok("test"))>>, "nsl_50",
                   [frame EXCEPT !.X_test = Split("test", 1)])
           \/ NslExcept(<<Event("nsl", "transform", args, Raised)>>)

\* line 50
NslConstructBaseline ==
    /\ pc = "nsl_50"
    /\ \/ Step(<<Event("nsl", "BaselineModels", <<>>, Ok("baseline"))>>, "nsl_51", frame)
       \/ NslExcept(<<Event("nsl", "BaselineModels", <<>>, Raised)>>)

\* lines 51-52
NslTrainAll ==
    /\ pc = "nsl_51"
    /\ LET exclude_models == NslExcludeModels(frame.X_train.rows)
           args == <<frame.X_train, exclude_models>>
       IN  \/ Step(<<Event("nsl", "train_all", args, Ok("trained"))>>, "nsl_55",
                   [frame EXCEPT !.exclude_models = exclude_models])
           \/ NslExcept(<<Event("nsl", "train_all", args, Raised)>>)

\* line 55
NslEvaluateAll ==
    /\ pc = "nsl_55"
    /\ LET args == <<frame.X_val>>
       IN  \/ \E lb \in Leaderboards :
                Step(<<Event("nsl", "evaluate_all", args, Ok(lb))>>, "nsl_56",
                     [frame EXCEPT !.val_results = lb])
           \/ NslExcept(<<Event("nsl", "evaluate_all", args, Raised)>>)

\* lines 56-58 as if an empty leaderboard only skipped the test evaluation
NslCheckEmpty_SkipsEvaluation ==
    /\ pc = "nsl_56"
    /\ IF Empty(frame.val_results)
       THEN Step(<<>>, "nsl_71", frame)
       ELSE Step(<<>>, "nsl_61", frame)

\* lines 56-58
NslCheckEmpty ==
    /\ pc = "nsl_56"
    /\ IF Empty(frame.val_results)
       THEN NslReturn(<<>>, "False")
       ELSE Step(<<>>, "nsl_61", frame)

\* lines 60-64: selecting a column the frame lacks raises KeyError, iloc[0] on a
\* frame without rows raises IndexError
NslSelectBest ==
    /\ pc = "nsl_61"
    /\ IF frame.val_results.columns /\ Len(frame.val_results.names) >= 1
       THEN Step(<<>>, "nsl_65",
                 [frame EXCEPT !.best_model_name = BestModelName(frame.val_results)])
       ELSE NslExcept(<<>>)

\* line 65
NslEvaluateModel ==
    /\ pc = "nsl_65"
    /\ LET args == <<frame.best_model_name, frame.X_test>>
       IN  \/ \E m \in MetricRecords :
                Step(<<Event("nsl", "evaluate_model", args, Ok(m))>>, "nsl_66",
                     [frame EXCEPT !.test_metrics = m])
           \/ NslExcept(<<Event("nsl", "evaluate_model", args, Raised)>>)

\* lines 66-68: .get on a non-mapping, or {value:.3f} on a non-number, raises
NslPrintMetrics ==
    /\ pc = "nsl_66"
    /\ IF frame.test_metrics = "metrics"
       THEN Step(<<>>, "nsl_71", frame)
       ELSE NslExcept(<<>>)

\* lines 70-73
NslSaveModels ==
    /\ pc = "nsl_71"
    /\ LET args == <<NslModelsDir, NslResultsDir, NslSuffix>>
       IN  \/ Step(<<Event("nsl", "save_models", args, Ok("saved"))>>, "nsl_74", frame)
           \/ NslExcept(<<Event("nsl", "save_models", args, Raised)>>)

\* lines 74-77
NslSavePreprocessor ==
    /\ pc = "nsl_74"
    /\ LET args == <<NslPreprocessorFile>>
       IN  \/ NslReturn(<<Event("nsl", "save", args, Ok("saved"))>>, "True")
           \/ NslExcept(<<Event("nsl", "save", args, Raised)>>)

----------------------------------------------------------------------------
(* train_cic_baseline, lines 84-155 *)

\* line 163 calls the procedure; line 87 prints the banner
MainCallCic ==
    /\ pc = "main_163"
    /\ Step(<<Event("cic", "enter", <<>>, Ok("enter"))>>, "cic_90", EmptyFrame)

\* lines 89-94
CicImport ==
    /\ pc = "cic_90"
    /\ \/ Step(<<Event("cic", "import", <<>>, Ok("modules"))>>, "cic_96", frame)
       \/ CicReturn(<<Event("cic", "import", <<>>, ImportFailed)>>, "False")

\* line 96: the constructor runs between the two try blocks
CicConstructPreprocessor ==
    /\ pc = "cic_96"
    /\ \/ Step(<<Event("cic", "CICIDSPreprocessor", <<>>, Ok("preprocessor"))>>,
               "cic_100", frame)
       \/ Uncaught(<<Event("cic", "CICIDSPreprocessor", <<>>, Raised)>>)

\* lines 99-100
CicLoadData ==
    /\ pc = "cic_100"
    /\ LET args == <<"use_full_dataset=True">>
       IN  \/ \E d \in {None, "CIC-IDS-2017"} :
                Step(<<Event("cic", "load_data", args, Ok(d))>>, "cic_101",
                     [frame EXCEPT !.cic_data = d])
           \/ CicExcept(<<Event("cic", "load_data", args, Raised)>>)

\* lines 101-103
CicCheckData ==
    /\ pc = "cic_101"
    /\ IF CicDataMissing(frame.cic_data)
       THEN CicReturn(<<>>, "False")
       ELSE Step(<<>>, "cic_106", frame)

\* lines 105-106
CicFitTransform ==
    /\ pc = "cic_106"
    /\ LET args == <<frame.cic_data>>
       IN  \/ \E n \in CicFullRowChoices :
                Step(<<Event("cic", "fit_transform", args, Ok(n))>>, "cic_109",
                     [frame EXCEPT !.X_full = Split("full", n)])
           \/ CicExcept(<<Event("cic", "fit_transform", args, Raised)>>)

\* lines 109-115
CicSplitTrainTemp ==
    /\ pc = "cic_109"
    /\ LET args == <<frame.X_full, FirstTestSize, RandomState>>
       IN  \/ \E s \in TrainTestSplit(frame.X_full.rows, FirstTestSize) :
                Step(<<Event("cic", "train_test_split", args, Ok(s))>>, "cic_116",
                     [frame EXCEPT !.X_train = Split("train", s[1]),
                                   !.X_temp = Split("temp", s[2])])
           \/ CicExcept(<<Event("cic", "train_test_split", args, Raised)>>)

\* lines 116-122
CicSplitValTest ==
    /\ pc = "cic_116"
    /\ LET args == <<frame.X_temp, SecondTestSize, RandomState>>
       IN  \/ \E s \in TrainTestSplit(frame.X_temp.rows, SecondTestSize) :
                Step(<<Event("cic", "train_test_split", args, Ok(s))>>, "cic_125",
                     [frame EXCEPT !.X_val = Split("val", s[1]),
                                   !.X_test = Split("test", s[2])])
           \/ CicExcept(<<Event("cic", "train_test_split", args, Raised)>>)

\* line 125
CicConstructBaseline ==
    /\ pc = "cic_125"
    /\ \/ Step(<<Event("cic", "BaselineModels", <<>>, Ok("baseline"))>>, "cic_126", frame)
       \/ CicExcept(<<Event("cic", "BaselineModels", <<>>, Raised)>>)

\* lines 126-127
CicTrainAll ==
    /\ pc = "cic_126"
    /\ LET exclude_models == CicExcludeModels(frame.X_train.rows)
           args == <<frame.X_train, exclude_models>>
       IN  \/ Step(<<Event("cic", "train_all", args, Ok("trained"))>>, "cic_130",
                   [frame EXCEPT !.exclude_models = exclude_models])
           \/ CicExcept(<<Event("cic", "train_all", args, Raised)>>)

\* line 130
CicEvaluateAll ==
    /\ pc = "cic_130"
    /\ LET args == <<frame.X_val>>
       IN  \/ \E lb \in Leaderboards :
                Step(<<Event("cic", "evaluate_all", args, Ok(lb))>>, "cic_131",
                     [frame EXCEPT !.val_results = lb])
           \/ CicExcept(<<Event("cic", "evaluate_all", args, Raised)>>)

\* lines 131-133
CicCheckEmpty ==
    /\ pc = "cic_131"
    /\ IF Empty(frame.val_results)
       THEN CicReturn(<<>>, "False")
       ELSE Step(<<>>, "cic_136", frame)

\* lines 135-139: selecting a column the frame lacks raises KeyError, iloc[0] on a
\* frame without rows raises IndexError
CicSelectBest ==
    /\ pc = "cic_136"
    /\ IF frame.val_results.columns /\ Len(frame.val_results.names) >= 1
       THEN Step(<<>>, "cic_140",
                 [frame EXCEPT !.best_model_name = BestModelName(frame.val_results)])
       ELSE CicExcept(<<>>)

\* line 140
CicEvaluateModel ==
    /\ pc = "cic_140"
    /\ LET args == <<frame.best_model_name, frame.X_test>>
       IN  \/ \E m \in MetricRecords :
                Step(<<Event("cic", "evaluate_model", args, Ok(m))>>, "cic_141",
                     [frame EXCEPT !.test_metrics = m])
           \/ CicExcept(<<Event("cic", "evaluate_model", args, Raised)>>)

\* lines 141-143: .get on a non-mapping, or {value:.3f} on a non-number, raises
CicPrintMetrics ==
    /\ pc = "cic_141"
    /\ IF frame.test_metrics = "metrics"
       THEN Step(<<>>, "cic_146", frame)
       ELSE CicExcept(<<>>)

\* lines 145-151
CicSaveModels ==
    /\ pc = "cic_146"
    /\ LET args == <<CicModelsDir, CicResultsDir, CicSuffix>>
       IN  \/ CicReturn(<<Event("cic", "save_models", args, Ok("saved"))>>, "True")
           \/ CicExcept(<<Event("cic", "save_models", args, Raised)>>)

----------------------------------------------------------------------------
(* main, lines 158-179 *)

\* lines 165-175
MainReport ==
    /\ pc = "main_165"
    /\ main_ret' = MainResult(success_nsl, success_cic)
    /\ pc' = "main_179"
    /\ UNCHANGED <<frame, trace, success_nsl, success_cic, escaped, exit_code, split_vars>>

\* line 179: sys.exit(0 if main() else 1)
Exit ==
    /\ pc = "main_179"
    /\ exit_code' = ExitCode(main_ret)
    /\ pc' = "exit"
    /\ UNCHANGED <<frame, trace, success_nsl, success_cic, main_ret, escaped, split_vars>>

----------------------------------------------------------------------------
(* The two splits of lines 109-122 on the rows themselves *)

NoParts == [train |-> {}, temp |-> {}, val |-> {}, test |-> {}]

\* train_test_split on the row set S with test fraction t: the <<train, test>> pairs
\* it may produce (which rows go where is the splitter's shuffle)
TrainTestSplitRows(S, t) ==
    {<<S \ T, T>> : T \in {U \in SUBSET S :
                              \E s \in TrainTestSplit(Cardinality(S), t) :
                                  Cardinality(U) = s[2]}}

\* lines 109-115: X_train, X_temp = train_test_split(X_full, test_size=0.4)
SplitTrainTempRows(X_full) == TrainTestSplitRows(X_full, FirstTestSize)

\* lines 116-122 as if the second split were given X_full again
SplitValTestRows_FromFull(X_full, X_temp) == TrainTestSplitRows(X_full, SecondTestSize)

\* lines 116-122: X_val, X_test = train_test_split(X_temp, test_size=0.5)
SplitValTestRows(X_full, X_temp) == TrainTestSplitRows(X_temp, SecondTestSize)

RowsSplitTrainTemp ==
    /\ split_pc = "first"
    /\ \E s \in SplitTrainTempRows(rows) :
         parts' = [parts EXCEPT !.train = s[1], !.temp = s[2]]
    /\ split_pc' = "second"
    /\ UNCHANGED <<rows, main_vars>>

RowsSplitValTest ==
    /\ split_pc = "second"
    /\ \E s \in SplitValTestRows(rows, parts.temp) :
         parts' = [parts EXCEPT !.val = s[1], !.test = s[2]]
    /\ split_pc' = "done"
    /\ UNCHANGED <<rows, main_vars>>

----------------------------------------------------------------------------
(* Specifications *)

MainInit ==
    /\ pc = "main_162"
    /\ frame = EmptyFrame
    /\ trace = <<>>
    /\ success_nsl = "unset"
    /\ success_cic = "unset"
    /\ main_ret = "unset"
    /\ escaped = FALSE
    /\ exit_code = NoExit

Init ==
    /\ MainInit
    /\ rows = {}
    /\ parts = NoParts
    /\ split_pc = "off"

Next ==
    \/ MainCallNsl
    \/ NslImport
    \/ NslConstructAnalyzer
    \/ NslLoadTrain
    \/ NslLoadTest
    \/ NslCheckData
    \/ NslConstructPreprocessor
    \/ NslFitTransform
    \/ NslTransform
    \/ NslConstructBaseline
    \/ NslTrainAll
    \/ NslEvaluateAll
    \/ NslCheckEmpty
    \/ NslSelectBest
    \/ NslEvaluateModel
    \/ NslPrintMetrics
    \/ NslSaveModels
    \/ NslSavePreprocessor
    \/ MainCallCic
    \/ CicImport
    \/ CicConstructPreprocessor
    \/ CicLoadData
    \/ CicCheckData
    \/ CicFitTransform
    \/ CicSplitTrainTemp
    \/ CicSplitValTest
    \/ CicConstructBaseline
    \/ CicTrainAll
    \/ CicEvaluateAll
    \/ CicCheckEmpty
    \/ CicSelectBest
    \/ CicEvaluateModel
    \/ CicPrintMetrics
    \/ CicSaveModels
    \/ MainReport
    \/ Exit

Spec == Init /\ [][Next]_vars

\* the row-level split, on every data set of up to MaxRows rows
SplitInit ==
    /\ MainInit
    /\ rows \in {1 .. n : n \in 0 .. MaxRows}
    /\ parts = NoParts
    /\ split_pc = "first"

SplitNext ==
    \/ RowsSplitTrainTemp
    \/ RowsSplitValTest

SplitSpec == SplitInit /\ [][SplitNext]_vars

----------------------------------------------------------------------------
(* Reading the trace *)

Procs == {"nsl", "cic"}
Other(p) == IF p = "nsl" THEN "cic" ELSE "nsl"

\* positions of trace at which procedure p called op
At(p, op) == {i \in DOMAIN trace : trace[i].proc = p /\ trace[i].op = op}

Called(p, op) == At(p, op) # {}
Entered(p) == Called(p, "enter")
Returned(p) == Called(p, "return")
\* the value procedure p returned
Result(p) == IF p = "nsl" THEN success_nsl ELSE success_cic

\* the calls of p among ops, in order
CallsOf(p, ops) == SelectSeq(trace, LAMBDA e : e.proc = p /\ e.op \in ops)

\* the loader handed p a None
LoadedNone(p) ==
    \E i \in At(p, "load_data") : trace[i].res.status = "ok" /\ trace[i].res.value = None

\* evaluate_all handed p a leaderboard without rows
EmptyLeaderboard(p) ==
    \E i \in At(p, "evaluate_all") :
        trace[i].res.status = "ok" /\ trace[i].res.value.names = <<>>

IsPrefix(a, b) == Len(a) <= Len(b) /\ SubSeq(b, 1, Len(a)) = a
\* neither directory is the other or lies inside it
Apart(a, b) == ~IsPrefix(a, b) /\ ~IsPrefix(b, a)
Parent(path) == SubSeq(path, 1, Len(path) - 1)

\* the directories procedure p asked a collaborator to write to
WriteDirs(p) ==
    UNION {{trace[i].args[1], trace[i].args[2]} : i \in At(p, "save_models")}
        \cup {Parent(trace[i].args[1]) : i \in At(p, "save")}

Terminated == pc = "exit"

----------------------------------------------------------------------------
(* C1 -- exception containment *)

\* C1: whatever the collaborators do, no exception leaves train_nsl_kdd_baseline or
\* train_cic_baseline: each procedure that was entered ends by returning True or
\* False, so a finished run has a boolean for each of them.
C1_ExceptionContainment ==
    /\ ~escaped
    /\ Terminated => \A p \in Procs : Entered(p) => Result(p) \in {"True", "False"}

----------------------------------------------------------------------------
(* C2 -- result of main and exit code *)

\* C2: main() returns True exactly when both procedures returned True, and the
\* process exit code is 0 exactly when main() returned True, and 1 otherwise.
C2_MainAndExitCode ==
    /\ main_ret # "unset" =>
          /\ main_ret \in {"True", "False"}
          /\ main_ret = "True" <=> (success_nsl = "True" /\ success_cic = "True")
    /\ Terminated =>
          /\ exit_code \in {0, 1}
          /\ exit_code = 0 <=> main_ret = "True"

\* a finished run in which only the NSL-KDD procedure succeeded
C2_Witness ==
    /\ Terminated
    /\ success_nsl = "True"
    /\ success_cic = "False"
    /\ main_ret = "False"
    /\ exit_code = 1

----------------------------------------------------------------------------
(* C3 -- both procedures are always attempted, in order *)

----------------------------------------------------------------------------
(* C4 -- short-circuit on missing data *)

DataOps == {"fit_transform", "train_all", "evaluate_all", "evaluate_model",
            "save_models", "save"}

\* C4: a procedure whose loader returned None (for either NSL-KDD file, or for the
\* CIC data) never calls fit_transform, train_all, evaluate_all, evaluate_model or
\* a save operation, and the value it returns is False.
C4_MissingDataShortCircuit ==
    \A p \in Procs :
        LoadedNone(p) =>
            /\ CallsOf(p, DataOps) = <<>>
            /\ Returned(p) => Result(p) = "False"

\* the NSL-KDD train file loaded, the test file did not, and the procedure returned
C4_Witness ==
    /\ Returned("nsl")
    /\ \E i \in At("nsl", "load_data") :
          trace[i].args = <<"KDDTrain+.txt">> /\ trace[i].res = Ok("KDDTrain+")
    /\ \E i \in At("nsl", "load_data") :
          trace[i].args = <<"KDDTest+.txt">> /\ trace[i].res = Ok(None)
    /\ Returned("cic") /\ LoadedNone("cic")

----------------------------------------------------------------------------
(* C5 -- short-circuit on an empty leaderboard *)

\* every call of p's success path after the import, all of them completed
SavesCompleted(p) ==
    /\ \E i \in At(p, "save_models") : trace[i].res.status = "ok"
    /\ p = "nsl" => \E i \in At(p, "save") : trace[i].res.status = "ok"

\* C5: a procedure to which evaluate_all returned an empty leaderboard never calls
\* evaluate_model, save_models or the preprocessor's save, and returns False; the
\* other procedure is unaffected: it still returns True when its own saves completed
\* and False when they did not.
C5_EmptyLeaderboardShortCircuit ==
    \A p \in Procs :
        EmptyLeaderboard(p) =>
            /\ CallsOf(p, {"evaluate_model", "save_models", "save"}) = <<>>
            /\ Returned(p) => Result(p) = "False"
            /\ Returned(Other(p)) =>
                  (Result(Other(p)) = "True" <=> SavesCompleted(Other(p)))

\* the CIC leaderboard was empty and the NSL-KDD procedure had succeeded
C5_Witness ==
    /\ Terminated
    /\ EmptyLeaderboard("cic")
    /\ success_cic = "False"
    /\ success_nsl = "True"

----------------------------------------------------------------------------
(* C6 -- what a True result means *)

StageOps == {"load_data", "fit_transform", "transform", "train_test_split", "train_all",
             "evaluate_all", "evaluate_model", "save_models", "save"}

\* the stages of a successful run, in order
NslStages == <<"load_data", "load_data", "fit_transform", "transform", "train_all",
               "evaluate_all", "evaluate_model", "save_models", "save">>
CicStages == <<"load_data", "fit_transform", "train_test_split", "train_test_split",
               "train_all", "evaluate_all", "evaluate_model", "save_models">>

\* p ran every stage once, in order, none raised, no load gave None and the
\* leaderboard had a row
AllStagesSucceeded(p) ==
    LET calls == CallsOf(p, StageOps)
    IN  /\ [i \in DOMAIN calls |-> calls[i].op] = (IF p = "nsl" THEN NslStages ELSE CicStages)
        /\ \A i \in DOMAIN calls : calls[i].res.status = "ok"
        /\ ~LoadedNone(p)
        /\ ~EmptyLeaderboard(p)

\* C6: a procedure returns True exactly when it loaded its data (no None),
\* preprocessed, trained, got a non-empty leaderboard, evaluated the best model on the
\* test split and completed every save, in this order and with no call raising.
C6_TrueIffAllStages ==
    \A p \in Procs :
        Returned(p) => (Result(p) = "True" <=> AllStagesSucceeded(p))

\* both procedures returned True
C6_Witness ==
    /\ Returned("nsl") /\ success_nsl = "True"
    /\ Returned("cic") /\ success_cic = "True"

----------------------------------------------------------------------------
(* C7 -- model exclusion *)

\* C7: the exclude_models passed to train_all is ["svm_linear"] when the NSL-KDD
\* train split has more than 5,000 rows and [] otherwise; it is
\* ["svm_linear", "knn"] when the CIC train split has more than 10,000 rows and []
\* otherwise.
C7_ExcludeModels ==
    /\ \A i \in At("nsl", "train_all") :
          trace[i].args[2] =
              IF trace[i].args[1].rows >= 5001 THEN <<"svm_linear">> ELSE <<>>
    /\ \A i \in At("cic", "train_all") :
          trace[i].args[2] =
              IF trace[i].args[1].rows >= 10001 THEN <<"svm_linear", "knn">> ELSE <<>>

\* NSL-KDD trained on exactly 5,000 rows with nothing excluded, CIC on 10,001 rows
\* with both models excluded
C7_Witness ==
    /\ \E i \in At("nsl", "train_all") :
          trace[i].args[1].rows = 5000 /\ trace[i].args[2] = <<>>
    /\ \E i \in At("cic", "train_all") :
          trace[i].args[1].rows = 10001 /\ trace[i].args[2] = <<"svm_linear", "knn">>

----------------------------------------------------------------------------
(* C8 -- persistence targets *)

\* C8: the NSL-KDD procedure writes only below data/models/baseline (the models and
\* nsl_preprocessor.pkl) and data/results/nsl, with suffix _nsl; the CIC procedure
\* only below data/models/cic_baseline and data/results/cic, with suffix _cic; no
\* directory of one lies in a directory of the other; the CIC procedure never calls
\* the preprocessor's save.
C8_PersistenceTargets ==
    /\ \A i \in At("nsl", "save_models") :
          trace[i].args = <<<<"data", "models", "baseline">>,
                            <<"data", "results", "nsl">>, "_nsl">>
    /\ \A i \in At("nsl", "save") :
          trace[i].args = <<<<"data", "models", "baseline", "nsl_preprocessor.pkl">>>>
    /\ \A i \in At("cic", "save_models") :
          trace[i].args = <<<<"data", "models", "cic_baseline">>,
                            <<"data", "results", "cic">>, "_cic">>
    /\ \A a \in WriteDirs("nsl") : \A b \in WriteDirs("cic") : Apart(a, b)
    /\ ~Called("cic", "save")

\* both procedures saved
C8_Witness ==
    /\ SavesCompleted("nsl")
    /\ SavesCompleted("cic")

----------------------------------------------------------------------------
(* C9 -- best-model selection *)

\* C9: a procedure calls evaluate_model at most once; when it does, train_all and
\* evaluate_all have completed before, no save call precedes it, the model name is
\* that of the first row of the leaderboard evaluate_all returned, and the data is
\* the test split.
C9_BestModelSelection ==
    \A p \in Procs :
        /\ Cardinality(At(p, "evaluate_model")) <= 1
        /\ \A m \in At(p, "evaluate_model") :
              /\ \E t \in At(p, "train_all") : \E e \in At(p, "evaluate_all") :
                    /\ t < e /\ e < m
                    /\ trace[t].res.status = "ok"
                    /\ trace[e].res.status = "ok"
                    /\ trace[m].args[1] = Head(trace[e].res.value.names)
              /\ \A s \in At(p, "save_models") \cup At(p, "save") : m < s
              /\ trace[m].args[2].split = "test"
              /\ p = "cic" =>
                    \E s \in At(p, "train_test_split") :
                        /\ trace[s].args[2] = <<1, 2>>
                        /\ trace[s].res.status = "ok"
                        /\ trace[m].args[2].rows = trace[s].res.value[2]

\* a two-row leaderboard with different names, the first of them evaluated, then saved
C9_Witness ==
    \E p \in Procs :
        \E e \in At(p, "evaluate_all") : \E m \in At(p, "evaluate_model") :
            /\ trace[e].res.status = "ok"
            /\ trace[e].res.value.names = <<"knn", "random_forest">>
            /\ trace[m].args[1] = "knn"
            /\ Called(p, "save_models")

----------------------------------------------------------------------------
(* C10 -- sizes of the CIC splits *)

\* C10: the two splits of a data set of N rows give train, validation and test sets
\* that are pairwise disjoint, together hold all N rows, and have sizes less than one
\* row away from 0.6N, 0.2N and 0.2N.
C10_SplitSizes ==
    split_pc = "done" =>
        LET N == Cardinality(rows)
            Near(S, num) == LET d == 5 * Cardinality(S) - num * N
                            IN  -5 < d /\ d < 5
        IN  /\ parts.train \cap parts.val = {}
            /\ parts.train \cap parts.test = {}
            /\ parts.val \cap parts.test = {}
            /\ parts.train \cup parts.val \cup parts.test = rows
            /\ Near(parts.train, 3)
            /\ Near(parts.val, 1)
            /\ Near(parts.test, 1)

\* a data set of at least five rows split into three non-empty parts
C10_Witness ==
    /\ split_pc = "done"
    /\ Cardinality(rows) >= 5
    /\ parts.train # {} /\ parts.val # {} /\ parts.test # {}

====
